---- MODULE Spec2Model ----
(***************************************************************************)
(* Model of bot/api.py: class Api, the command relay of the motion bot.    *)
(*                                                                         *)
(* The state is the Api object (settings, logger, updater with its         *)
(* dispatcher's listener lists), the position of run(), and the traffic    *)
(* the handlers cause: backend GETs, send_message calls, handler runs and  *)
(* error-callback invocations.  The dispatcher hands one update at a time  *)
(* to the first listener of its list that accepts it.                      *)
(***************************************************************************)
EXTENDS Integers, Sequences, FiniteSets, TLC

VARIABLES
    settings,        \* self.settings
    pc,              \* position of run()
    updater,         \* self._updater exists
    handlers,        \* self._updater.dispatcher: listeners, in registration order
    error_handlers,  \* self._updater.dispatcher: error listeners
    polling,         \* start_polling() has been called
    printed,         \* lines written by print()
    logger,          \* messages given to self.logger.info
    requests,        \* requests.get calls, with what the backend answered
    sent,            \* bot.send_message calls
    runs,            \* handler invocations and how each ended
    pending,         \* fault that left a handler and is at the dispatcher
    classified,      \* invocations of the error callback and how each ended
    uncaught,        \* faults the dispatcher logged itself and dropped
    evCount          \* inbound events taken from the transport so far

vars == <<settings, pc, updater, handlers, error_handlers, polling, printed,
          logger, requests, sent, runs, pending, classified, uncaught, evCount>>

----------------------------------------------------------------------------
\* Bounds and input sets

MaxEvents == 2

SettingsSet ==
    { [token |-> "123:ABC", server_address |-> "localhost:8080", version |-> "1.0"],
      [token |-> "123:ABC", server_address |-> "10.0.0.2:80",    version |-> "2.3"] }

ChatIds == {101, 202}

\* update.message.text: a command token ("/word") or plain text
Texts ==
    { [is_command |-> TRUE, command |-> c] :
         c \in {"help", "start", "stop", "info", "version", "test", "foo"} }
    \cup { [is_command |-> FALSE, command |-> "hello"] }

NoResponse == [status_code |-> 0, content |-> ""]

\* what requests.get can come back with: a response of any status, or a raise
Responses ==
    { [status_code |-> 200, content |-> "Hello!"],
      [status_code |-> 500, content |-> "Internal Server Error"] }

BackendOutcomes ==
    { [raised |-> FALSE, fault |-> "none", response |-> r] : r \in Responses }
    \cup { [raised |-> TRUE, fault |-> "ConnectionError", response |-> NoResponse] }

----------------------------------------------------------------------------
\* Class attributes and imported fault types

api_commands == <<"help", "start", "stop", "info", "version", "test">>

\* the methods of Api that getattr(self, name) can resolve as listeners
HandlerNames == {"help", "start", "stop", "info", "version", "test", "unknown"}

\* telegram.error: TelegramError and its subclasses; ConnectionError is the
\* fault requests.get raises, outside that hierarchy
Parent(t) ==
    CASE t = "Unauthorized"    -> "TelegramError"
      [] t = "InvalidToken"    -> "TelegramError"
      [] t = "NetworkError"    -> "TelegramError"
      [] t = "BadRequest"      -> "NetworkError"
      [] t = "TimedOut"        -> "NetworkError"
      [] t = "ChatMigrated"    -> "TelegramError"
      [] t = "TelegramError"   -> "Exception"
      [] t = "ConnectionError" -> "Exception"
      [] OTHER                 -> "Exception"

RECURSIVE IsInstance(_, _)
IsInstance(t, c) ==
    IF t = c THEN TRUE
    ELSE IF t = "Exception" THEN FALSE
    ELSE IsInstance(Parent(t), c)

TelegramFaults ==
    {"Unauthorized", "BadRequest", "TimedOut", "NetworkError", "ChatMigrated",
     "TelegramError", "InvalidToken"}

NoFault == [update |-> 0, error |-> "none"]

Min(S) == CHOOSE x \in S : \A y \in S : x <= y

----------------------------------------------------------------------------
\* Api.__init__

Init ==
    /\ settings \in SettingsSet
    /\ pc = "run"
    /\ updater = FALSE
    /\ handlers = <<>>
    /\ error_handlers = <<>>
    /\ polling = FALSE
    /\ printed = <<>>
    /\ logger = <<>>
    /\ requests = <<>>
    /\ sent = <<>>
    /\ runs = <<>>
    /\ pending = NoFault
    /\ classified = <<>>
    /\ uncaught = <<>>
    /\ evCount = 0

----------------------------------------------------------------------------
\* Api.run and Api.__create_api_commands, statement by statement

\* variant: polling is started before the listeners are registered
run_Updater_polls_first ==
    /\ pc = "run"
    /\ updater' = TRUE
    /\ pc' = "start_polling"
    /\ UNCHANGED <<settings, handlers, error_handlers, polling, printed, logger,
                   requests, sent, runs, pending, classified, evCount, uncaught>>

run_Updater ==
    /\ pc = "run"
    /\ updater' = TRUE
    /\ pc' = "create_api_commands"
    /\ UNCHANGED <<settings, handlers, error_handlers, polling, printed, logger,
                   requests, sent, runs, pending, classified, evCount, uncaught>>

\* variant: every command listener is bound to the unknown handler
CommandHandler_unknown(command, callback) ==
    [type |-> "CommandHandler", command |-> command, callback |-> "unknown"]

CommandHandler(command, callback) ==
    [type |-> "CommandHandler", command |-> command, callback |-> callback]

MessageHandler(callback) ==
    [type |-> "MessageHandler", command |-> "Filters.command", callback |-> callback]

\* variant: every listener is bound to the handler of the first command
create_api_commands_loop_same_callback ==
    /\ pc = "create_api_commands"
    /\ updater
    /\ Len(handlers) < Len(api_commands)
    /\ LET command == api_commands[Len(handlers) + 1] IN
         /\ printed' = Append(printed, "Creating command: " \o command)
         /\ handlers' = Append(handlers, [type |-> "CommandHandler",
                                          command |-> command,
                                          callback |-> api_commands[1]])
    /\ UNCHANGED <<settings, pc, updater, error_handlers, polling, logger,
                   requests, sent, runs, pending, classified, evCount, uncaught>>

\* one turn of "for command in self.api_commands"
create_api_commands_loop ==
    /\ pc = "create_api_commands"
    /\ updater
    /\ Len(handlers) < Len(api_commands)
    /\ LET command == api_commands[Len(handlers) + 1] IN
         /\ command \in HandlerNames
         /\ printed' = Append(printed, "Creating command: " \o command)
         /\ handlers' = Append(handlers, CommandHandler(command, command))
    /\ UNCHANGED <<settings, pc, updater, error_handlers, polling, logger,
                   requests, sent, runs, pending, classified, evCount, uncaught>>

create_api_commands_unknown ==
    /\ pc = "create_api_commands"
    /\ Len(handlers) = Len(api_commands)
    /\ handlers' = Append(handlers, MessageHandler("unknown"))
    /\ pc' = "add_error_handler"
    /\ UNCHANGED <<settings, updater, error_handlers, polling, printed, logger,
                   requests, sent, runs, pending, classified, evCount, uncaught>>

create_api_commands_error ==
    /\ pc = "add_error_handler"
    /\ error_handlers' = Append(error_handlers, "error_callback")
    /\ pc' = "log_waiting"
    /\ UNCHANGED <<settings, updater, handlers, polling, printed, logger,
                   requests, sent, runs, pending, classified, evCount, uncaught>>

run_log ==
    /\ pc = "log_waiting"
    /\ logger' = Append(logger, "The bot is now waiting for orders!")
    /\ pc' = "start_polling"
    /\ UNCHANGED <<settings, updater, handlers, error_handlers, polling, printed,
                   requests, sent, runs, pending, classified, evCount, uncaught>>

\* variant: run returns without starting to poll
run_start_polling_skipped ==
    /\ pc = "start_polling"
    /\ updater
    /\ pc' = "returned"
    /\ UNCHANGED <<settings, updater, handlers, error_handlers, polling, printed,
                   logger, requests, sent, runs, pending, classified, evCount,
                   uncaught>>

\* Updater.start_polling starts the transport's threads and comes back at
\* once; the statement after it is run's "return"
run_start_polling ==
    /\ pc = "start_polling"
    /\ updater
    /\ polling' = TRUE
    /\ pc' = "returned"
    /\ UNCHANGED <<settings, updater, handlers, error_handlers, printed, logger,
                   requests, sent, runs, pending, classified, evCount, uncaught>>

----------------------------------------------------------------------------
\* The dispatcher of the transport library, as far as Api relies on it

\* the inbound events the transport can produce next
Inbound ==
    { [id |-> evCount + 1, is_command |-> t.is_command, command |-> t.command,
       chat_id |-> c] : t \in Texts, c \in ChatIds }

\* CommandHandler(name, ...) accepts the command of that exact name;
\* MessageHandler(Filters.command, ...) accepts every command-shaped message
check_update(h, u) ==
    IF h.type = "CommandHandler"
    THEN u.is_command /\ u.command = h.command
    ELSE u.is_command

\* add_handler puts all listeners in one group: the first that accepts, handles
Route(hs, u) ==
    LET accepting == { i \in 1..Len(hs) : check_update(hs[i], u) } IN
    IF accepting = {} THEN "none" ELSE hs[Min(accepting)].callback

\* the dispatcher is free to hand the next update to a listener
Ready ==
    /\ polling
    /\ pending = NoFault
    /\ evCount < MaxEvents

----------------------------------------------------------------------------
\* Api.get_request_to_server and the calls a handler makes

\* variant: the address lacks the /v1/ prefix
get_request_to_server_no_prefix(cmd, u, o) ==
    LET address == "http://" \o settings.server_address \o "/" \o cmd IN
    [ request  |-> [update |-> u.id, url |-> address, raised |-> o.raised,
                    response |-> o.response],
      raised   |-> o.raised,
      fault    |-> o.fault,
      response |-> o.response ]

get_request_to_server(cmd, u, o) ==
    LET address == "http://" \o settings.server_address \o "/v1/" \o cmd IN
    [ request  |-> [update |-> u.id, url |-> address, raised |-> o.raised,
                    response |-> o.response],
      raised   |-> o.raised,
      fault    |-> o.fault,
      response |-> o.response ]

\* bot.send_message(chat_id=..., text=...): one message handed to the transport
\* (the call is taken to return; faults of the transport itself arrive through
\* on_poll_error)
send_message(u, chat_id, text) ==
    [update |-> u.id, chat_id |-> chat_id, text |-> text]

\* what one handler invocation leaves behind: its log line, its calls, how it ended
HandlerRun(u, name, message, gets, msgs, fault) ==
    /\ logger' = Append(logger, message)
    /\ requests' = requests \o gets
    /\ sent' = sent \o msgs
    /\ runs' = Append(runs, [update |-> u, callback |-> name,
                             outcome |-> IF fault = "none" THEN "returned" ELSE "raised",
                             fault |-> fault])
    /\ pending' = IF fault = "none" THEN NoFault ELSE [update |-> u.id, error |-> fault]
    /\ evCount' = evCount + 1
    /\ UNCHANGED <<settings, pc, updater, handlers, error_handlers, polling,
                   printed, classified, uncaught>>

----------------------------------------------------------------------------
\* API functions

\* variant: the body is relayed only when the status is 200
help_status_checked(u) ==
    \E o \in BackendOutcomes :
        LET response == get_request_to_server("help", u, o) IN
        IF response.raised
        THEN HandlerRun(u, "help", "Received help command",
                        <<response.request>>, <<>>, response.fault)
        ELSE HandlerRun(u, "help", "Received help command", <<response.request>>,
                        <<send_message(u, u.chat_id,
                                       IF response.response.status_code = 200
                                       THEN response.response.content
                                       ELSE "Backend error")>>, "none")

help(u) ==
    \E o \in BackendOutcomes :
        LET response == get_request_to_server("help", u, o) IN
        IF response.raised
        THEN HandlerRun(u, "help", "Received help command",
                        <<response.request>>, <<>>, response.fault)
        ELSE HandlerRun(u, "help", "Received help command", <<response.request>>,
                        <<send_message(u, u.chat_id, response.response.content)>>, "none")

\* variant: the handler catches the fault of the GET and answers the chat
start_catching(u) ==
    \E o \in BackendOutcomes :
        LET response == get_request_to_server("start", u, o) IN
        IF response.raised
        THEN HandlerRun(u, "start", "Received start command", <<response.request>>,
                        <<send_message(u, u.chat_id, "Backend not available")>>, "none")
        ELSE HandlerRun(u, "start", "Received start command", <<response.request>>,
                        <<send_message(u, u.chat_id, response.response.content)>>, "none")

start(u) ==
    \E o \in BackendOutcomes :
        LET response == get_request_to_server("start", u, o) IN
        IF response.raised
        THEN HandlerRun(u, "start", "Received start command",
                        <<response.request>>, <<>>, response.fault)
        ELSE HandlerRun(u, "start", "Received start command", <<response.request>>,
                        <<send_message(u, u.chat_id, response.response.content)>>, "none")

stop(u) ==
    \E o \in BackendOutcomes :
        LET response == get_request_to_server("stop", u, o) IN
        IF response.raised
        THEN HandlerRun(u, "stop", "Received stop command",
                        <<response.request>>, <<>>, response.fault)
        ELSE HandlerRun(u, "stop", "Received stop command", <<response.request>>,
                        <<send_message(u, u.chat_id, response.response.content)>>, "none")

info(u) ==
    \E o \in BackendOutcomes :
        LET response == get_request_to_server("info", u, o) IN
        IF response.raised
        THEN HandlerRun(u, "info", "Received info command",
                        <<response.request>>, <<>>, response.fault)
        ELSE HandlerRun(u, "info", "Received info command", <<response.request>>,
                        <<send_message(u, u.chat_id, response.response.content)>>, "none")

\* variant: version asks the backend like the other commands
version_via_backend(u) ==
    \E o \in BackendOutcomes :
        LET response == get_request_to_server("version", u, o) IN
        IF response.raised
        THEN HandlerRun(u, "version", "Received version command",
                        <<response.request>>, <<>>, response.fault)
        ELSE HandlerRun(u, "version", "Received version command", <<response.request>>,
                        <<send_message(u, u.chat_id, response.response.content)>>, "none")

version(u) ==
    HandlerRun(u, "version", "Received version command", <<>>,
               <<send_message(u, u.chat_id, settings.version)>>, "none")

test(u) ==
    \E o \in BackendOutcomes :
        LET response == get_request_to_server("test", u, o) IN
        IF response.raised
        THEN HandlerRun(u, "test", "Received test command",
                        <<response.request>>, <<>>, response.fault)
        ELSE HandlerRun(u, "test", "Received test command", <<response.request>>,
                        <<send_message(u, u.chat_id, response.response.content)>>, "none")

unknown(u) ==
    HandlerRun(u, "unknown", "Received unknown command", <<>>,
               <<send_message(u, u.chat_id, "Sorry, unknown command")>>, "none")

----------------------------------------------------------------------------
\* Api.__error_callback

\* variant: the NetworkError clause is written before those of its subclasses
ExceptClauses_network_first ==
    << [type |-> "Unauthorized",  message |-> "Error Unauthorized found!"],
       [type |-> "NetworkError",  message |-> "Error NetworkError found!"],
       [type |-> "BadRequest",    message |-> "Error BadRequest found!"],
       [type |-> "TimedOut",      message |-> "Error TimedOut found!"],
       [type |-> "ChatMigrated",  message |-> "Error ChatMigrated found!"],
       [type |-> "TelegramError", message |-> "Error TelegramError found!"] >>

\* the except clauses, in the order they are written
ExceptClauses ==
    << [type |-> "Unauthorized",  message |-> "Error Unauthorized found!"],
       [type |-> "BadRequest",    message |-> "Error BadRequest found!"],
       [type |-> "TimedOut",      message |-> "Error TimedOut found!"],
       [type |-> "NetworkError",  message |-> "Error NetworkError found!"],
       [type |-> "ChatMigrated",  message |-> "Error ChatMigrated found!"],
       [type |-> "TelegramError", message |-> "Error TelegramError found!"] >>

\* variant: each clause raises again after logging
error_callback_reraise(update, error) ==
    LET matching == { i \in 1..Len(ExceptClauses) :
                          IsInstance(error, ExceptClauses[i].type) } IN
    /\ logger' = IF matching # {}
                 THEN Append(logger, ExceptClauses[Min(matching)].message)
                 ELSE logger
    /\ classified' = Append(classified,
            [update |-> update, error |-> error,
             kind |-> IF matching # {} THEN ExceptClauses[Min(matching)].type ELSE "none",
             outcome |-> "raised"])

\* "raise error" inside try: the first clause the fault is an instance of runs;
\* with no such clause the fault leaves the callback
error_callback(update, error) ==
    LET matching == { i \in 1..Len(ExceptClauses) :
                          IsInstance(error, ExceptClauses[i].type) } IN
    IF matching # {}
    THEN /\ logger' = Append(logger, ExceptClauses[Min(matching)].message)
         /\ classified' = Append(classified,
                [update |-> update, error |-> error,
                 kind |-> ExceptClauses[Min(matching)].type, outcome |-> "returned"])
    ELSE /\ logger' = logger
         /\ classified' = Append(classified,
                [update |-> update, error |-> error,
                 kind |-> "none", outcome |-> "raised"])

----------------------------------------------------------------------------
\* Events: the dispatcher hands each update to the listener Route selects

on_help    == \E u \in Inbound : Ready /\ Route(handlers, u) = "help"    /\ help(u)
on_start   == \E u \in Inbound : Ready /\ Route(handlers, u) = "start"   /\ start(u)
on_stop    == \E u \in Inbound : Ready /\ Route(handlers, u) = "stop"    /\ stop(u)
on_info    == \E u \in Inbound : Ready /\ Route(handlers, u) = "info"    /\ info(u)
on_version == \E u \in Inbound : Ready /\ Route(handlers, u) = "version" /\ version(u)
on_test    == \E u \in Inbound : Ready /\ Route(handlers, u) = "test"    /\ test(u)
on_unknown == \E u \in Inbound : Ready /\ Route(handlers, u) = "unknown" /\ unknown(u)

\* an update no listener accepts is dropped
on_unhandled ==
    \E u \in Inbound :
        /\ Ready
        /\ Route(handlers, u) = "none"
        /\ evCount' = evCount + 1
        /\ UNCHANGED <<settings, pc, updater, handlers, error_handlers, polling,
                       printed, logger, requests, sent, runs, pending, classified, uncaught>>

\* the transport reports a fault of its own while polling
on_poll_error ==
    \E e \in TelegramFaults :
        /\ Ready
        /\ Len(error_handlers) > 0
        /\ error_callback(0, e)
        /\ evCount' = evCount + 1
        /\ UNCHANGED <<settings, pc, updater, handlers, error_handlers, polling,
                       printed, requests, sent, runs, pending, uncaught>>

\* a fault that left a handler is given to the error listener ...
dispatch_error ==
    /\ pending # NoFault
    /\ Len(error_handlers) > 0
    /\ error_callback(pending.update, pending.error)
    /\ pending' = NoFault
    /\ UNCHANGED <<settings, pc, updater, handlers, error_handlers, polling,
                   printed, requests, sent, runs, evCount, uncaught>>

\* ... or, when it is no TelegramError, logged by the dispatcher itself and
\* dropped: which of the two depends on the version of the transport library
dispatch_uncaught ==
    /\ pending # NoFault
    /\ ~IsInstance(pending.error, "TelegramError")
    /\ uncaught' = Append(uncaught, pending)
    /\ pending' = NoFault
    /\ UNCHANGED <<settings, pc, updater, handlers, error_handlers, polling,
                   printed, logger, requests, sent, runs, classified, evCount>>

Next ==
    \/ run_Updater
    \/ create_api_commands_loop
    \/ create_api_commands_unknown
    \/ create_api_commands_error
    \/ run_log
    \/ run_start_polling
    \/ on_help
    \/ on_start
    \/ on_stop
    \/ on_info
    \/ on_version
    \/ on_test
    \/ on_unknown
    \/ on_unhandled
    \/ on_poll_error
    \/ dispatch_error
    \/ dispatch_uncaught

Spec == Init /\ [][Next]_vars

----------------------------------------------------------------------------
\* Registration in any order: the listeners __create_api_commands adds, and the
\* state run() leaves when they were added in another order

CodeOrder ==
    [ i \in 1..(Len(api_commands) + 1) |->
        IF i <= Len(api_commands)
        THEN CommandHandler(api_commands[i], api_commands[i])
        ELSE MessageHandler("unknown") ]

PrintedFor(hs) ==
    LET cmds == SelectSeq(hs, LAMBDA h : h.type = "CommandHandler") IN
    [ i \in 1..Len(cmds) |-> "Creating command: " \o cmds[i].command ]

\* run() has returned; one update is routed under each order
InitOrder ==
    /\ settings = [token |-> "123:ABC", server_address |-> "localhost:8080",
                   version |-> "1.0"]
    /\ pc = "returned"
    /\ updater = TRUE
    /\ handlers \in { [ i \in 1..Len(CodeOrder) |-> CodeOrder[p[i]] ] :
                        p \in Permutations(1..Len(CodeOrder)) }
    /\ error_handlers = <<"error_callback">>
    /\ polling = TRUE
    /\ printed = PrintedFor(handlers)
    /\ logger = <<"The bot is now waiting for orders!">>
    /\ requests = <<>>
    /\ sent = <<>>
    /\ runs = <<>>
    /\ pending = NoFault
    /\ classified = <<>>
    /\ uncaught = <<>>
    /\ evCount = MaxEvents - 1

NextOrder ==
    \/ on_help
    \/ on_start
    \/ on_stop
    \/ on_info
    \/ on_version
    \/ on_test
    \/ on_unknown
    \/ on_unhandled

SpecOrder == InitOrder /\ [][NextOrder]_vars

----------------------------------------------------------------------------
\* Vocabulary of the properties

RelayCommands == {"help", "start", "stop", "info", "test"}
ListedCommands == {"help", "start", "stop", "info", "version", "test"}
SixKinds ==
    {"Unauthorized", "BadRequest", "TimedOut", "NetworkError", "ChatMigrated",
     "TelegramError"}

GetsOf(id) == { i \in 1..Len(requests) : requests[i].update = id }
SentOf(id) == { j \in 1..Len(sent) : sent[j].update = id }
RunsOf(id) == { k \in 1..Len(runs) : runs[k].update.id = id }

\* the handled events for a relay command whose backend call succeeded
RelayedOk ==
    { k \in 1..Len(runs) :
        /\ runs[k].update.is_command
        /\ runs[k].update.command \in RelayCommands
        /\ ~ \E i \in GetsOf(runs[k].update.id) : requests[i].raised }

----------------------------------------------------------------------------
\* C1: every handled event for help, start, stop, info or test whose backend
\* call succeeds has caused exactly one GET, to
\* http://{server_address}/v1/{its command}, and exactly one reply, to the
\* chat the event came from; n such events give n successful GETs and n
\* replies of their own.
C1_OneGetOneReplyPerEvent ==
    /\ \A k \in RelayedOk :
         LET u == runs[k].update IN
         /\ Cardinality(GetsOf(u.id)) = 1
         /\ \A i \in GetsOf(u.id) :
               requests[i].url =
                   "http://" \o settings.server_address \o "/v1/" \o u.command
         /\ Cardinality(SentOf(u.id)) = 1
         /\ \A j \in SentOf(u.id) : sent[j].chat_id = u.chat_id
    /\ Cardinality({ i \in 1..Len(requests) : ~requests[i].raised })
         = Cardinality(RelayedOk)
    /\ Cardinality({ j \in 1..Len(sent) :
                       \E k \in RelayedOk : runs[k].update.id = sent[j].update })
         = Cardinality(RelayedOk)

\* two events for the same command, from different chats, both answered
C1_Witness ==
    /\ Cardinality(RelayedOk) = 2
    /\ runs[1].update.command = "stop"
    /\ runs[2].update.command = "stop"
    /\ runs[1].update.chat_id # runs[2].update.chat_id
    /\ Len(requests) = 2
    /\ Len(sent) = 2

\* C2: the version handler sends exactly one reply, whose text is the version
\* of the settings, to the chat the event came from, and issues no GET.
C2_VersionIsLocal ==
    \A k \in 1..Len(runs) :
        runs[k].callback = "version" =>
            LET u == runs[k].update IN
            /\ runs[k].outcome = "returned"
            /\ GetsOf(u.id) = {}
            /\ Cardinality(SentOf(u.id)) = 1
            /\ \A j \in SentOf(u.id) :
                  /\ sent[j].text = settings.version
                  /\ sent[j].chat_id = u.chat_id

C2_Witness ==
    /\ settings.version = "2.3"
    /\ \E k \in 1..Len(runs) :
          /\ runs[k].callback = "version"
          /\ runs[k].update.chat_id = 202
          /\ \E j \in SentOf(runs[k].update.id) : sent[j].text = "2.3"
    /\ requests = <<>>

\* C3: every command event is handled by exactly one handler: a listed
\* command by the handler of its name and never by unknown, any other command
\* token by unknown alone, which replies "Sorry, unknown command" and issues
\* no GET.
C3_ExactlyOneHandler ==
    /\ \A k \in 1..Len(runs) :
         LET u == runs[k].update IN
         /\ u.is_command
         /\ RunsOf(u.id) = {k}
         /\ u.command \in ListedCommands => runs[k].callback = u.command
         /\ u.command \notin ListedCommands =>
               /\ runs[k].callback = "unknown"
               /\ GetsOf(u.id) = {}
               /\ Cardinality(SentOf(u.id)) = 1
               /\ \A j \in SentOf(u.id) : sent[j].text = "Sorry, unknown command"
    /\ polling =>
         \A t \in Texts :
            t.is_command =>
               Route(handlers, [id |-> 0, is_command |-> TRUE,
                                command |-> t.command, chat_id |-> 101]) # "none"

C3_Witness ==
    /\ Len(runs) = 2
    /\ runs[1].update.command = "foo"
    /\ runs[1].callback = "unknown"
    /\ runs[2].update.command = "info"
    /\ runs[2].callback = "info"

\* C4: the reply of a handler that calls the backend is the body the GET
\* returned, unchanged, whatever the status; there is one GET per event (no
\* retry).
C4_BodyRelayedVerbatim ==
    \A k \in 1..Len(runs) :
        runs[k].callback \in RelayCommands =>
            LET u == runs[k].update IN
            /\ Cardinality(GetsOf(u.id)) = 1
            /\ \A i \in GetsOf(u.id) :
                  ~requests[i].raised =>
                      /\ SentOf(u.id) # {}
                      /\ \A j \in SentOf(u.id) :
                            sent[j].text = requests[i].response.content

\* a body that comes with status 500 is the reply
C4_Witness ==
    \E k \in 1..Len(runs) :
        /\ runs[k].callback = "help"
        /\ \E i \in GetsOf(runs[k].update.id) :
              /\ requests[i].response.status_code = 500
              /\ \E j \in SentOf(runs[k].update.id) :
                    sent[j].text = "Internal Server Error"

C7_NeverReraises ==
    \A c \in 1..Len(classified) : classified[c].outcome = "returned"

\* C7, amended: the classifier returns normally for every fault that is a
\* TelegramError (the six kinds and their subclasses); a fault outside that
\* hierarchy matches no clause and leaves the classifier as raised.  In
\* neither case is the failed operation tried again.
C7_ReturnsForTelegramErrors ==
    \A c \in 1..Len(classified) :
        LET e == classified[c] IN
        /\ e.error \in TelegramFaults => e.outcome = "returned" /\ e.kind \in SixKinds
        /\ e.error \notin TelegramFaults => e.outcome = "raised" /\ e.kind = "none"
        /\ e.update # 0 =>
              /\ Cardinality(RunsOf(e.update)) = 1
              /\ Cardinality(GetsOf(e.update)) <= 1
              /\ SentOf(e.update) = {}

C7_Witness ==
    /\ Len(classified) = 2
    /\ classified[1].error = "InvalidToken"
    /\ classified[1].outcome = "returned"
    /\ classified[2].error = "ConnectionError"
    /\ classified[2].outcome = "raised"
    /\ classified[2].update = 2
    /\ pending = NoFault

\* the listener of command c and the fallback listener, by place in the list
PlaceOf(c) ==
    Min({ i \in 1..Len(handlers) :
            handlers[i].type = "CommandHandler" /\ handlers[i].command = c })
PlaceOfFallback ==
    Min({ i \in 1..Len(handlers) : handlers[i].type = "MessageHandler" })

\* C8, as stated: under every registration order each event goes to the
\* handler it goes to under the order of the code.
C8_OrderIrrelevant ==
    \A k \in 1..Len(runs) :
        runs[k].callback =
            IF runs[k].update.command \in ListedCommands
            THEN runs[k].update.command
            ELSE "unknown"

\* C8, amended: the order among the six command listeners does not matter,
\* the place of the fallback listener does: a listed command reaches the
\* handler of its name exactly when its listener is registered before the
\* fallback listener (as in the code, where the fallback is last); registered
\* after it, the command goes to unknown.
C8_OrderUpToFallback ==
    \A k \in 1..Len(runs) :
        LET u == runs[k].update IN
        runs[k].callback =
            IF u.command \in ListedCommands /\ PlaceOf(u.command) < PlaceOfFallback
            THEN u.command
            ELSE "unknown"

\* another order than the code's, fallback last: test reaches test
C8_Witness ==
    /\ handlers # CodeOrder
    /\ PlaceOfFallback = Len(handlers)
    /\ PlaceOf("test") = 1
    /\ Len(runs) = 1
    /\ runs[1].update.command = "test"
    /\ runs[1].callback = "test"

\* C9, as stated: run does not return while the process is alive.
C9_RunBlocks ==
    pc # "returned"

\* C9, amended: run returns to its caller right after its one-time setup,
\* with polling started; polling, once started, is never stopped, and events
\* are taken only while it is on.
C9_RunReturnsPollingGoesOn ==
    [][ /\ polling => polling'
        /\ pc' = "returned" => polling'
        /\ evCount' > evCount => polling
      ]_vars

C9_Witness ==
    /\ pc = "returned"
    /\ polling
    /\ Len(runs) = 2

AllRegistered ==
    /\ \A i \in 1..Len(api_commands) :
          /\ api_commands[i] \in HandlerNames
          /\ \E j \in 1..Len(handlers) :
                handlers[j] = [type |-> "CommandHandler",
                               command |-> api_commands[i],
                               callback |-> api_commands[i]]
    /\ \E j \in 1..Len(handlers) :
          handlers[j].type = "MessageHandler" /\ handlers[j].callback = "unknown"
    /\ \E j \in 1..Len(error_handlers) : error_handlers[j] = "error_callback"

\* C10: registration comes before polling: whenever polling is on, or any
\* event has been dispatched, the six command listeners (each bound to the
\* handler of its name), the fallback listener and the fault listener are
\* all registered.
C10_RegisteredBeforePolling ==
    (polling \/ evCount > 0 \/ runs # <<>> \/ classified # <<>>) => AllRegistered

C10_Witness ==
    /\ polling
    /\ AllRegistered
    /\ Len(handlers) = 7
    /\ Len(runs) = 1
    /\ Len(classified) = 1
    /\ classified[1].update = 0

====
